---- MODULE Spec2Model ----
(***************************************************************************)
(* Model of scripts/update_patch9.py: the change-report reader             *)
(* (get_changes), the manifest reader (current_patchfile), the manifest    *)
(* updater (update_file_entries) and the publisher (commit_and_push_file), *)
(* run in sequence by the __main__ block.                                  *)
(*                                                                         *)
(* Text is a sequence of tokens.  A token is a string standing for a run   *)
(* of characters: "\n", "\t", " ", "//", "/", a decimal numeral, a status  *)
(* letter, a file stem ("a") or a file suffix (".rgz").  A file on disk is *)
(* the flat token sequence of its content, so that reading a file back     *)
(* splits it at the newline tokens it really contains.                     *)
(***************************************************************************)
EXTENDS Integers, Sequences, FiniteSets, TLC

VARIABLES
    report,      \* content of CHANGED_FILES
    manifest,    \* content of PATCH_FILE
    pc,          \* position in __main__: the call about to be made, "exit" or "crashed"
    err,         \* where the unhandled exception was raised, or "none"
    changes,     \* __main__'s changes: list of <<filename, status>>
    entries,     \* __main__'s entries: ordered dict as a list of <<num, filename>>
    git,         \* the version-control commands run so far, as <<command, succeeded>>
    out,         \* the messages printed by commit_and_push_file
    runs,        \* number of invocations of the script so far
    pre,         \* content of PATCH_FILE when the current invocation started
    ownOutput,   \* pre was written by the previous invocation from a well-formed, non-empty manifest
    startedUnique \* the active identifiers of the first manifest were pairwise distinct

vars == <<report, manifest, pc, err, changes, entries, git, out, runs, pre, ownOutput, startedUnique>>

----------------------------------------------------------------------------
(* Bounds of the model *)

MaxRuns == 2          \* invocations of the script
MaxReport == 2        \* lines of a change report
MaxLines == 2         \* lines of the initial manifest
MaxInitId == 2        \* identifiers used by the initial manifest

MaxNum == MaxInitId + MaxRuns * MaxReport + 1

----------------------------------------------------------------------------
(* Python string and list primitives over token sequences *)

NL == "\n"
TAB == "\t"
SP == " "
SLASHES == "//"

Whitespace == {SP, TAB, NL}

Digits == <<"0", "1", "2", "3", "4", "5", "6", "7", "8", "9">>

RECURSIVE Str(_)
Str(n) == IF n < 10 THEN Digits[n + 1] ELSE Str(n \div 10) \o Digits[(n % 10) + 1]

Numerals == {Str(n) : n \in 0..MaxNum}

\* int(s) succeeds on a string that is one decimal numeral
IntOk(s) == Len(s) = 1 /\ s[1] \in Numerals

ToInt(s) == CHOOSE n \in 0..MaxNum : Str(n) = s[1]

RECURSIVE LStrip(_)
LStrip(s) == IF s # <<>> /\ Head(s) \in Whitespace THEN LStrip(Tail(s)) ELSE s

RECURSIVE RStrip(_)
RStrip(s) ==
    IF s # <<>> /\ s[Len(s)] \in Whitespace THEN RStrip(SubSeq(s, 1, Len(s) - 1)) ELSE s

Strip(s) == RStrip(LStrip(s))

StartsWith(s, tok) == s # <<>> /\ Head(s) = tok

\* index of the first occurrence of tok in s, 0 when there is none
Find(s, tok) ==
    IF \E i \in 1..Len(s) : s[i] = tok
    THEN CHOOSE i \in 1..Len(s) : s[i] = tok /\ \A j \in 1..(i - 1) : s[j] # tok
    ELSE 0

\* s.split(sep, 1): one element when sep does not occur, two otherwise
Split1(s, sep) ==
    LET i == Find(s, sep)
    IN  IF i = 0 THEN <<s>> ELSE <<SubSeq(s, 1, i - 1), SubSeq(s, i + 1, Len(s))>>

\* iteration over the lines of a file, each line keeping its newline
RECURSIVE ReadLines(_)
ReadLines(text) ==
    IF text = <<>> THEN <<>>
    ELSE LET i == Find(text, NL)
         IN  IF i = 0 THEN <<text>>
             ELSE <<SubSeq(text, 1, i)>> \o ReadLines(SubSeq(text, i + 1, Len(text)))

\* file.writelines(ls)
RECURSIVE WriteLines(_)
WriteLines(ls) == IF ls = <<>> THEN <<>> ELSE Head(ls) \o WriteLines(Tail(ls))

Suffixes == {".rgz", ".gpf"}

\* endswith with the suffix test left out
EndsWithSuffix_any(s) == s # <<>>

EndsWithSuffix(s) == s # <<>> /\ s[Len(s)] \in Suffixes

\* os.path.basename: what follows the last "/"
RECURSIVE Basename(_)
Basename(s) ==
    LET i == Find(s, "/") IN IF i = 0 THEN s ELSE Basename(SubSeq(s, i + 1, Len(s)))

----------------------------------------------------------------------------
(* get_changes *)

\* get_changes with a line that has no tab passed over instead of unpacked
RECURSIVE ScanReport_skip(_, _)
ScanReport_skip(ls, acc) ==
    IF ls = <<>> THEN [ok |-> TRUE, val |-> acc]
    ELSE LET stripped_line == Strip(Head(ls))
             parts == Split1(stripped_line, TAB)
         IN  IF stripped_line = <<>> \/ Len(parts) < 2 THEN ScanReport_skip(Tail(ls), acc)
             ELSE IF EndsWithSuffix(parts[2])
                  THEN ScanReport_skip(Tail(ls), Append(acc, <<Basename(parts[2]), parts[1]>>))
                  ELSE ScanReport_skip(Tail(ls), acc)

\* the loop body of get_changes over the remaining lines; acc is output
RECURSIVE ScanReport(_, _)
ScanReport(ls, acc) ==
    IF ls = <<>> THEN [ok |-> TRUE, val |-> acc]
    ELSE LET stripped_line == Strip(Head(ls))
             parts == Split1(stripped_line, TAB)
         IN  IF stripped_line = <<>> THEN ScanReport(Tail(ls), acc)
             ELSE IF Len(parts) < 2 THEN [ok |-> FALSE, val |-> acc]
             ELSE IF EndsWithSuffix(parts[2])
                  THEN ScanReport(Tail(ls), Append(acc, <<Basename(parts[2]), parts[1]>>))
                  ELSE ScanReport(Tail(ls), acc)

get_changes(text) == ScanReport(ReadLines(text), <<>>)

----------------------------------------------------------------------------
(* current_patchfile *)

\* current[num] = file on an insertion-ordered dict
DictSet(d, num, file) ==
    IF \E i \in 1..Len(d) : d[i][1] = num
    THEN [i \in 1..Len(d) |-> IF d[i][1] = num THEN <<num, file>> ELSE d[i]]
    ELSE Append(d, <<num, file>>)

RECURSIVE ScanManifest(_, _)
ScanManifest(ls, current) ==
    IF ls = <<>> THEN [ok |-> TRUE, val |-> current]
    ELSE LET line == Head(ls)
             parts == Split1(line, SP)
         IN  IF StartsWith(Strip(line), SLASHES) THEN ScanManifest(Tail(ls), current)
             ELSE IF Len(parts) < 2 THEN [ok |-> FALSE, val |-> current]
             ELSE ScanManifest(Tail(ls), DictSet(current, parts[1], Strip(parts[2])))

current_patchfile(text) == ScanManifest(ReadLines(text), <<>>)

----------------------------------------------------------------------------
(* update_file_entries *)

Status(letter) == <<letter>>

deleted_files(github_changes) ==
    {github_changes[i][1] : i \in {j \in 1..Len(github_changes) : github_changes[j][2] = Status("D")}}

modified_files(github_changes) ==
    {github_changes[i][1] : i \in {j \in 1..Len(github_changes) : github_changes[j][2] = Status("M")}}

RECURSIVE added_files(_)
added_files(github_changes) ==
    IF github_changes = <<>> THEN <<>>
    ELSE IF Head(github_changes)[2] = Status("A")
         THEN <<Head(github_changes)[1]>> \o added_files(Tail(github_changes))
         ELSE added_files(Tail(github_changes))

\* the scan of valid_entries run forwards: the first occurrence is kept
last_occurrences_forward(valid_entries, github_changes) ==
    LET wanted == deleted_files(github_changes) \cup modified_files(github_changes)
        present == {f \in wanted : \E i \in 1..Len(valid_entries) : valid_entries[i][2] = f}
        hit(f) == CHOOSE i \in 1..Len(valid_entries) :
                      /\ valid_entries[i][2] = f
                      /\ \A j \in 1..(i - 1) : valid_entries[j][2] # f
    IN  [f \in present |-> valid_entries[hit(f)][1]]

\* the reverse scan of valid_entries: the first match per filename is kept
last_occurrences(valid_entries, github_changes) ==
    LET wanted == deleted_files(github_changes) \cup modified_files(github_changes)
        present == {f \in wanted : \E i \in 1..Len(valid_entries) : valid_entries[i][2] = f}
        hit(f) == CHOOSE i \in 1..Len(valid_entries) :
                      /\ valid_entries[i][2] = f
                      /\ \A j \in (i + 1)..Len(valid_entries) : valid_entries[j][2] # f
    IN  [f \in present |-> valid_entries[hit(f)][1]]

KeysAreInts(valid_entries) == \A i \in 1..Len(valid_entries) : IntOk(valid_entries[i][1])

SetMax(S) == IF S = {} THEN 0 ELSE CHOOSE m \in S : \A x \in S : x <= m

\* the next number taken from the number of entries instead of their maximum
next_number_count(valid_entries) == Len(valid_entries) + 1

next_number(valid_entries) ==
    SetMax({ToInt(valid_entries[i][1]) : i \in 1..Len(valid_entries)}) + 1

\* the loop over lines with the last occurrence dropped instead of commented out
UpdateLine_drop(line, last) ==
    LET stripped_line == Strip(line)
        parts == Split1(stripped_line, SP)
    IN  IF StartsWith(stripped_line, SLASHES) THEN line
        ELSE IF parts[2] \in DOMAIN last /\ last[parts[2]] = parts[1]
             THEN <<>>
             ELSE line

\* the loop over lines: the line as it goes to updated_lines
UpdateLine(line, last) ==
    LET stripped_line == Strip(line)
        parts == Split1(stripped_line, SP)
    IN  IF StartsWith(stripped_line, SLASHES) THEN line
        ELSE IF parts[2] \in DOMAIN last /\ last[parts[2]] = parts[1]
             THEN <<SLASHES>> \o line
             ELSE line

\* stripped_line.split(" ", 1) unpacks into two names
LineSplits(line) ==
    StartsWith(Strip(line), SLASHES) \/ Len(Split1(Strip(line), SP)) = 2

\* the two append loops share the counter: names are appended from number n on
RECURSIVE NewEntries(_, _)
NewEntries(names, n) ==
    IF names = <<>> THEN <<>>
    ELSE <<(<<NL, Str(n), SP>> \o Head(names))>> \o NewEntries(Tail(names), n + 1)

\* the orders in which iterating a set of strings can deliver its elements
IterationOrders(S) ==
    {q \in [1..Cardinality(S) -> S] : \A i, j \in 1..Cardinality(S) : i # j => q[i] # q[j]}

\* the two append loops in the other order
AppendedNames_swapped(github_changes, order) == order \o added_files(github_changes)

\* the names appended, given the order the modified set is iterated in
AppendedNames(github_changes, order) == added_files(github_changes) \o order

updated_lines(lines, valid_entries, github_changes, order) ==
    LET last == last_occurrences(valid_entries, github_changes)
    IN  [i \in 1..Len(lines) |-> UpdateLine(lines[i], last)]
        \o NewEntries(AppendedNames(github_changes, order), next_number(valid_entries))

----------------------------------------------------------------------------
(* commit_and_push_file *)

\* the subprocess.run calls, in program order
GitCommands ==
    << "git config --global user.name",
       "git config --global user.email",
       "git add",
       "git commit",
       "git push" >>

Success == "Successfully committed and pushed"
Failure == "Error committing and pushing file"

Failed(g) == \E i \in 1..Len(g) : ~g[i][2]

----------------------------------------------------------------------------
(* Reading a manifest as the claims speak of it: lines, entries, identifiers *)

Chomp(l) == IF l # <<>> /\ l[Len(l)] = NL THEN SubSeq(l, 1, Len(l) - 1) ELSE l

\* the lines of a text, without their newlines
Lines(text) == LET ls == ReadLines(text) IN [i \in 1..Len(ls) |-> Chomp(ls[i])]

IsComment(l) == StartsWith(Strip(l), SLASHES)

IsEntry(l) == ~IsComment(l) /\ Strip(l) # <<>>

Num(l) == Split1(Strip(l), SP)[1]

File(l) == LET parts == Split1(Strip(l), SP) IN IF Len(parts) = 2 THEN parts[2] ELSE <<>>

Deactivated(l) == <<SLASHES>> \o l

\* the identifiers on the active lines, and on all lines, of a text
ActiveNums(text) ==
    LET ls == Lines(text) IN {Num(ls[i]) : i \in {j \in 1..Len(ls) : IsEntry(ls[j])}}

AllNums(text) ==
    LET ls == Lines(text)
    IN  ActiveNums(text)
        \cup {Num(Tail(Strip(ls[i]))) : i \in {j \in 1..Len(ls) : IsComment(ls[j])}}

DistinctActiveIds(text) ==
    LET ls == Lines(text)
    IN  \A i, j \in 1..Len(ls) :
            (i # j /\ IsEntry(ls[i]) /\ IsEntry(ls[j])) => Num(ls[i]) # Num(ls[j])

----------------------------------------------------------------------------
(* Inputs *)

FileA == <<"a", ".rgz">>
FileB == <<"b", ".gpf">>
FileC == <<"c", ".rgz">>
FileD == <<"d", ".txt">>

PathA == <<"p", "/">> \o FileA
PathB == <<"p", "/">> \o FileB
PathC == <<"p", "/">> \o FileC
PathD == <<"p", "/">> \o FileD

\* lines of a change report, without their newline
ReportLines ==
    {<<st, TAB>> \o path : st \in {"M", "D"}, path \in {PathA, PathB}}
    \cup {<<"A", TAB>> \o PathA, <<"A", TAB>> \o PathC, <<"M", TAB>> \o PathD}
    \cup {<<>>, <<"M", SP>> \o PathA}

RECURSIVE Texts(_, _)
\* the texts of at most n lines drawn from L, every line ended by a newline
Texts(L, n) ==
    IF n = 0 THEN {<<>>}
    ELSE LET shorter == Texts(L, n - 1)
         IN  shorter \cup {t \o l \o <<NL>> : t \in shorter, l \in L}

Reports == Texts(ReportLines, MaxReport)

\* lines of a manifest, without their newline
ActiveLines ==
    {<<Str(n), SP>> \o f : n \in 1..MaxInitId, f \in {FileA, FileB}}
    \cup {<<Str(1), SP>> \o FileD}
CommentLines == {<<SLASHES, Str(MaxInitId), SP>> \o FileB}
BadLines == {<<>>, <<"1", SP>>, <<"x", SP>> \o FileA}

ManifestLines == ActiveLines \cup CommentLines \cup BadLines

\* a text file may or may not end with a newline
DropLastNewline(t) == IF t = <<>> THEN t ELSE SubSeq(t, 1, Len(t) - 1)

Manifests ==
    LET full == Texts(ManifestLines, MaxLines)
    IN  full \cup {DropLastNewline(t) : t \in full}

\* every line is a comment or "identifier filename"
WellFormed(text) ==
    LET ls == ReadLines(text)
    IN  \A i \in 1..Len(ls) :
            LET stripped_line == Strip(ls[i])
                parts == Split1(stripped_line, SP)
            IN  \/ StartsWith(stripped_line, SLASHES)
                \/ /\ Len(parts) = 2
                   /\ IntOk(parts[1])
                   /\ parts[2] # <<>>

----------------------------------------------------------------------------
(* __main__ *)

Init ==
    /\ report \in Reports
    /\ manifest \in Manifests
    /\ pc = "get_changes"
    /\ err = "none"
    /\ changes = <<>>
    /\ entries = <<>>
    /\ git = <<>>
    /\ out = <<>>
    /\ runs = 1
    /\ pre = manifest
    /\ ownOutput = FALSE
    /\ startedUnique = DistinctActiveIds(manifest)

Raise(where) ==
    /\ pc' = "crashed"
    /\ err' = where

\* changes = get_changes()
GetChanges ==
    /\ pc = "get_changes"
    /\ LET r == get_changes(report)
       IN  IF r.ok
           THEN /\ changes' = r.val
                /\ pc' = "current_patchfile"
                /\ err' = err
           ELSE /\ Raise("get_changes")
                /\ changes' = changes
    /\ UNCHANGED <<report, manifest, entries, git, out, runs, pre, ownOutput, startedUnique>>

\* entries = current_patchfile()
CurrentPatchfile ==
    /\ pc = "current_patchfile"
    /\ LET r == current_patchfile(manifest)
       IN  IF r.ok
           THEN /\ entries' = r.val
                /\ pc' = "update_file_entries"
                /\ err' = err
           ELSE /\ Raise("current_patchfile")
                /\ entries' = entries
    /\ UNCHANGED <<report, manifest, changes, git, out, runs, pre, ownOutput, startedUnique>>

\* update_file_entries opening the file for writing before it parses the lines
UpdateFileEntries_truncate ==
    /\ pc = "update_file_entries"
    /\ LET lines == ReadLines(manifest)
       IN  IF ~KeysAreInts(entries) \/ \E i \in 1..Len(lines) : ~LineSplits(lines[i])
           THEN /\ Raise("update_file_entries: lines")
                /\ manifest' = <<>>
           ELSE \E order \in IterationOrders(modified_files(changes)) :
                /\ manifest' = WriteLines(updated_lines(lines, entries, changes, order))
                /\ pc' = "commit_and_push_file"
                /\ err' = err
    /\ UNCHANGED <<report, changes, entries, git, out, runs, pre, ownOutput, startedUnique>>

\* update_file_entries(PATCH_FILE, entries, changes)
UpdateFileEntries ==
    /\ pc = "update_file_entries"
    /\ LET lines == ReadLines(manifest)
       IN  IF ~KeysAreInts(entries)
           THEN /\ Raise("update_file_entries: next_number")
                /\ manifest' = manifest
           ELSE IF \E i \in 1..Len(lines) : ~LineSplits(lines[i])
           THEN /\ Raise("update_file_entries: lines")
                /\ manifest' = manifest
           ELSE \E order \in IterationOrders(modified_files(changes)) :
                /\ manifest' = WriteLines(updated_lines(lines, entries, changes, order))
                /\ pc' = "commit_and_push_file"
                /\ err' = err
    /\ UNCHANGED <<report, changes, entries, git, out, runs, pre, ownOutput, startedUnique>>

\* subprocess.run without check=True: a failing command does not stop the others
RunGit_unchecked(ok) ==
    /\ pc = "commit_and_push_file"
    /\ Len(git) < Len(GitCommands)
    /\ git' = Append(git, <<GitCommands[Len(git) + 1], ok>>)
    /\ IF Len(git') = Len(GitCommands)
       THEN /\ out' = Append(out, Success)
            /\ pc' = "exit"
       ELSE /\ out' = out
            /\ pc' = pc
    /\ UNCHANGED <<report, manifest, err, changes, entries, runs, pre, ownOutput, startedUnique>>

\* one subprocess.run(..., check=True) of commit_and_push_file, with what follows it
RunGit(ok) ==
    /\ pc = "commit_and_push_file"
    /\ Len(git) < Len(GitCommands)
    /\ git' = Append(git, <<GitCommands[Len(git) + 1], ok>>)
    /\ IF ~ok
       THEN /\ out' = Append(out, Failure)
            /\ pc' = "exit"
       ELSE IF Len(git') = Len(GitCommands)
       THEN /\ out' = Append(out, Success)
            /\ pc' = "exit"
       ELSE /\ out' = out
            /\ pc' = pc
    /\ UNCHANGED <<report, manifest, err, changes, entries, runs, pre, ownOutput, startedUnique>>

CommitAndPushFile == \E ok \in BOOLEAN : RunGit(ok)

\* The automation starts the script again, with a new change report.  A run that
\* crashed left every file as it found it, so the run after it is a first run.
NewRun ==
    /\ pc = "exit"
    /\ runs < MaxRuns
    /\ runs' = runs + 1
    /\ report' \in Reports
    /\ pc' = "get_changes"
    /\ err' = "none"
    /\ changes' = <<>>
    /\ entries' = <<>>
    /\ git' = <<>>
    /\ out' = <<>>
    /\ pre' = manifest
    /\ ownOutput' = (pre # <<>> /\ WellFormed(pre))
    /\ UNCHANGED <<manifest, startedUnique>>

Next ==
    \/ GetChanges
    \/ CurrentPatchfile
    \/ UpdateFileEntries
    \/ CommitAndPushFile
    \/ NewRun

Spec == Init /\ [][Next]_vars

----------------------------------------------------------------------------
(* What the claims speak of *)

\* update_file_entries has written the manifest in this invocation
Written == pc \in {"commit_and_push_file", "exit"}

\* the change records of one status, in report order
Records(letter) == SelectSeq(changes, LAMBDA c : c[2] = <<letter>>)

Names(letter) == {changes[i][1] : i \in {j \in 1..Len(changes) : changes[j][2] = <<letter>>}}

\* the lines written after the original ones, blank lines left out
AppendedLines ==
    LET old == Lines(pre)
        new == Lines(manifest)
    IN  SelectSeq(SubSeq(new, Len(old) + 1, Len(new)), LAMBDA l : l # <<>>)

PrevMax == SetMax({ToInt(n) : n \in ActiveNums(pre)})

\* the indices of the active lines of old that carry filename f
Occurrences(old, f) == {i \in 1..Len(old) : IsEntry(old[i]) /\ File(old[i]) = f}

HighestNumbered(old, f) ==
    LET occ == Occurrences(old, f)
    IN  {i \in occ : \A j \in occ : ToInt(Num(old[j])) <= ToInt(Num(old[i]))}

LastInFile(old, f) ==
    LET occ == Occurrences(old, f) IN {i \in occ : \A j \in occ : j <= i}

\* the lines of old that differ in new
Rewritten(old, new) == {i \in 1..Len(old) : new[i] # old[i]}

\* the Deleted or Modified filenames present in the active mapping
Stale == {f \in Names("D") \cup Names("M") : \E i \in 1..Len(entries) : entries[i][2] = f}

\* every original line is still in place, verbatim or behind the "//" prefix
KeptInPlace(old, new) ==
    /\ Len(old) <= Len(new)
    /\ \A i \in 1..Len(old) : new[i] \in {old[i], Deactivated(old[i])}

\* the filenames of a set in the order the change report first names them
RECURSIVE FirstEncounter(_, _)
FirstEncounter(recs, seen) ==
    IF recs = <<>> THEN <<>>
    ELSE IF Head(recs)[1] \in seen THEN FirstEncounter(Tail(recs), seen)
    ELSE <<Head(recs)[1]>> \o FirstEncounter(Tail(recs), seen \cup {Head(recs)[1]})

----------------------------------------------------------------------------
(* Claims *)

\* C1: in every run each Added record gets one appended entry, the k-th appended
\* entry (added first, then modified) carries identifier previous-maximum + k, and
\* no appended entry reuses an identifier found on any line of the manifest,
\* active or deactivated.
C1_FreshIdentifiers ==
    Written =>
        LET app == AppendedLines
        IN  /\ Len(app) = Len(Records("A")) + Cardinality(Names("M"))
            /\ \A k \in 1..Len(Records("A")) : File(app[k]) = Records("A")[k][1]
            /\ \A k \in 1..Len(app) :
                  /\ Num(app[k]) = <<Str(PrevMax + k)>>
                  /\ Num(app[k]) \notin AllNums(pre)

\* What the code does keep of C1: the same, with "any line" narrowed to the active
\* lines (previous-maximum is the maximum over the active identifiers).
C1_FreshAmongActive ==
    Written =>
        LET app == AppendedLines
        IN  /\ Len(app) = Len(Records("A")) + Cardinality(Names("M"))
            /\ \A k \in 1..Len(Records("A")) : File(app[k]) = Records("A")[k][1]
            /\ \A k \in 1..Len(app) :
                  /\ Num(app[k]) = <<Str(PrevMax + k)>>
                  /\ Num(app[k]) \notin ActiveNums(pre)

\* C2 as stated: for every manifest (its active identifiers pairwise distinct, in
\* any file order), each Deleted or Modified filename present in the active
\* mapping has exactly one active line rewritten with the "//" prefix, the
\* occurrence with the numerically highest identifier; every other line is left
\* untouched.
C2_HighestDeactivated ==
    (Written /\ DistinctActiveIds(pre)) =>
        LET old == Lines(pre)
            new == Lines(manifest)
            rew == Rewritten(old, new)
        IN  /\ \A f \in Stale :
                  /\ Cardinality(Occurrences(old, f) \cap rew) = 1
                  /\ Occurrences(old, f) \cap rew \subseteq HighestNumbered(old, f)
            /\ \A i \in rew :
                  /\ new[i] = Deactivated(old[i])
                  /\ \E f \in Stale : i \in Occurrences(old, f)

\* C2 as amended: for every manifest whose active identifiers are pairwise
\* distinct, each Deleted or Modified filename present in the active mapping has
\* exactly one active line rewritten with the "//" prefix, the occurrence that
\* comes last in file order; every other line is left untouched.
C2_LastDeactivated ==
    (Written /\ DistinctActiveIds(pre)) =>
        LET old == Lines(pre)
            new == Lines(manifest)
            rew == Rewritten(old, new)
        IN  /\ \A f \in Stale :
                  /\ Cardinality(Occurrences(old, f) \cap rew) = 1
                  /\ Occurrences(old, f) \cap rew = LastInFile(old, f)
            /\ \A i \in rew :
                  /\ new[i] = Deactivated(old[i])
                  /\ \E f \in Stale : i \in Occurrences(old, f)

\* a filename was deactivated whose last occurrence is not its highest-numbered one
C2_Witness ==
    /\ Written
    /\ DistinctActiveIds(pre)
    /\ LET old == Lines(pre)
       IN  \E f \in Stale :
              /\ Cardinality(Occurrences(old, f)) = 2
              /\ LastInFile(old, f) \cap HighestNumbered(old, f) = {}
              /\ LastInFile(old, f) \subseteq Rewritten(old, Lines(manifest))

\* C3: running the pipeline again on a manifest that update_file_entries wrote
\* from a well-formed (and non-empty) manifest, with an empty change list,
\* completes without error and writes a manifest equal to its input.
C3_Idempotent ==
    (ownOutput /\ get_changes(report).ok /\ get_changes(report).val = <<>>) =>
        /\ pc # "crashed"
        /\ manifest = pre

\* C4: starting from a manifest whose active identifiers are pairwise distinct, no
\* two active lines of the manifest ever carry the same identifier.
C4_UniqueActive == startedUnique => DistinctActiveIds(manifest)

\* the second run appended an entry whose identifier a deactivated line carries
C4_Witness ==
    /\ startedUnique
    /\ runs = 2
    /\ Written
    /\ \E k \in 1..Len(AppendedLines) :
          Num(AppendedLines[k]) \in AllNums(pre) \ ActiveNums(pre)

\* the commands run so far are the first commands of the fixed order, and none
\* ran after one that failed
InOrder(g) ==
    /\ Len(g) <= Len(GitCommands)
    /\ \A i \in 1..Len(g) : g[i][1] = GitCommands[i]
    /\ \A i \in 1..(Len(g) - 1) : g[i][2]

\* C5: the version-control commands run in the order identity (name, email),
\* stage, commit, push; after a failure no later command runs, the error message
\* is printed instead of the success message, what was done is not undone, and
\* the function returns normally.
C5_Publisher ==
    /\ [](/\ InOrder(git)
          /\ git # <<>> => pc \in {"commit_and_push_file", "exit"}
          /\ Failed(git) => (pc = "exit" /\ out = <<Failure>>)
          /\ (pc = "exit" /\ ~Failed(git)) => (Len(git) = Len(GitCommands) /\ out = <<Success>>)
          /\ (pc = "commit_and_push_file") => (out = <<>> /\ ~Failed(git)))
    /\ [][pc = "commit_and_push_file" =>
            /\ manifest' = manifest
            /\ Len(git') = Len(git) + 1
            /\ SubSeq(git', 1, Len(git)) = git]_vars

\* committed but not pushed
C5_Witness ==
    /\ pc = "exit"
    /\ Len(git) = 5
    /\ git[4] = <<"git commit", TRUE>>
    /\ git[5] = <<"git push", FALSE>>
    /\ out = <<Failure>>
    /\ manifest # pre

\* the names the run appends, the Modified ones in first-encounter order
EncounterOrder ==
    LET added == Records("A")
    IN  [k \in 1..Len(added) |-> added[k][1]] \o FirstEncounter(Records("M"), {})

\* C6 as stated: the written manifest is the original lines in their order,
\* deactivations applied in place, followed by one line per Added record in report
\* order, followed by one line per distinct Modified filename in the order the
\* report first names them.  (An empty line is not counted as a line here.)
C6_EncounterOrder ==
    Written =>
        /\ KeptInPlace(Lines(pre), Lines(manifest))
        /\ Len(AppendedLines) = Len(EncounterOrder)
        /\ \A k \in 1..Len(EncounterOrder) : File(AppendedLines[k]) = EncounterOrder[k]

\* an empty line separates the appended entries from a manifest that is empty or
\* ends with a newline
Gap == IF AppendedLines # <<>> /\ (pre = <<>> \/ pre[Len(pre)] = NL) THEN 1 ELSE 0

\* C6 as amended: the written manifest is the original lines in their order,
\* deactivations applied in place, followed (after an empty line when the input is
\* empty or ends with a newline) by one line per Added record in report order,
\* followed by one line per distinct Modified filename in some order.
C6_AddedThenModified ==
    Written =>
        LET old == Lines(pre)
            new == Lines(manifest)
            added == Records("A")
            base == Len(old) + Gap
        IN  /\ KeptInPlace(old, new)
            /\ Len(new) = base + Len(added) + Cardinality(Names("M"))
            /\ Gap = 1 => new[Len(old) + 1] = <<>>
            /\ \A k \in 1..Len(added) : File(new[base + k]) = added[k][1]
            /\ {File(new[base + Len(added) + k]) : k \in 1..Cardinality(Names("M"))} = Names("M")

\* two Modified filenames were appended in the reverse of their report order
C6_Witness ==
    /\ Written
    /\ changes = << <<FileA, <<"M">> >>, <<FileB, <<"M">> >> >>
    /\ Len(AppendedLines) = 2
    /\ File(AppendedLines[1]) = FileB
    /\ File(AppendedLines[2]) = FileA

\* C7: every line of the input manifest is still in the output at the same
\* position, verbatim or prefixed with "//", and a change list of Deleted records
\* only leaves the number of lines as it was.
C7_NothingRemoved ==
    LET old == Lines(pre)
        new == Lines(manifest)
    IN  /\ KeptInPlace(old, new)
        /\ (Written /\ \A i \in 1..Len(changes) : changes[i][2] = <<"D">>)
              => Len(new) = Len(old)

\* manifest "1 a.rgz", "2 b.gpf" with record D b.gpf became "1 a.rgz", "//2 b.gpf"
C7_Witness ==
    /\ Written
    /\ changes = << <<FileB, <<"D">> >> >>
    /\ Lines(pre) = << <<"1", SP>> \o FileA, <<"2", SP>> \o FileB >>
    /\ Lines(manifest) = << <<"1", SP>> \o FileA, <<SLASHES, "2", SP>> \o FileB >>

\* the lines of the report that are not blank
NonBlank == SelectSeq(ReadLines(report), LAMBDA l : Strip(l) # <<>>)

\* C8: get_changes skips blank lines, and a non-blank line without a tab makes
\* the reader fail with a format error that ends the run; such a line yields no
\* change record.
C8_FormatError ==
    (pc # "get_changes") =>
        IF \E i \in 1..Len(NonBlank) : Find(NonBlank[i], TAB) = 0
        THEN /\ pc = "crashed"
             /\ err = "get_changes"
             /\ changes = <<>>
        ELSE /\ err # "get_changes"
             /\ Len(changes) <= Len(NonBlank)
             /\ \A i \in 1..Len(changes) : changes[i][2] # <<>>

\* a report whose first line is a valid record and whose second has no tab
C8_Witness ==
    /\ pc = "crashed"
    /\ err = "get_changes"
    /\ Len(NonBlank) = 2
    /\ Find(NonBlank[1], TAB) # 0
    /\ EndsWithSuffix(Strip(NonBlank[1]))
    /\ Find(NonBlank[2], TAB) = 0

\* the report lines whose path ends in a recognized suffix
Recognized == SelectSeq(NonBlank, LAMBDA l : Strip(l)[Len(Strip(l))] \in {".rgz", ".gpf"})

\* C9: every record passed to update_file_entries has a filename ending in
\* ".rgz" or ".gpf"; other paths cause no appended entry; every report line for a
\* recognized file is passed on, repeated lines as repeated records.
C9_ExtensionFilter ==
    /\ \A i \in 1..Len(changes) : changes[i][1][Len(changes[i][1])] \in {".rgz", ".gpf"}
    /\ pc \notin {"get_changes", "crashed"} =>
          /\ Len(changes) = Len(Recognized)
          /\ \A i \in 1..Len(changes) :
                LET l == Strip(Recognized[i])
                IN  /\ changes[i][2] = <<l[1]>>
                    /\ changes[i][1] = SubSeq(l, Len(l) - 1, Len(l))
    /\ Written =>
          LET old == Lines(pre)
          IN  /\ \A k \in 1..Len(AppendedLines) :
                    LET l == AppendedLines[k] IN l[Len(l)] \in {".rgz", ".gpf"}
              /\ \A i \in Rewritten(old, Lines(manifest)) :
                    old[i][Len(old[i])] \in {".rgz", ".gpf"}

\* a report naming d.txt as Modified and a recognized file went through the
\* updater, on a manifest with an active d.txt line, which was left alone
C9_Witness ==
    /\ Written
    /\ Len(NonBlank) = 2
    /\ Len(Recognized) = 1
    /\ Len(changes) = 1
    /\ Len(AppendedLines) = 1
    /\ \E i \in 1..Len(NonBlank) : Strip(NonBlank[i]) = <<"M", TAB>> \o PathD
    /\ \E i \in 1..Len(Lines(pre)) :
          /\ Lines(pre)[i] = <<"1", SP>> \o FileD
          /\ Lines(manifest)[i] = Lines(pre)[i]

\* C10: when a format error is raised, the manifest is what it was before the run
\* and no version-control command has been invoked; the manifest is written only
\* after all lines have been parsed, and the publisher starts only after the write.
C10_ErrorsFirst ==
    /\ pc = "crashed" =>
          /\ err # "none"
          /\ manifest = pre
          /\ git = <<>>
          /\ out = <<>>
    /\ manifest # pre => (Written /\ err = "none" /\ WellFormed(pre))
    /\ git # <<>> => (Written /\ err = "none" /\ WellFormed(pre))
    /\ ~WellFormed(pre) => ~Written

\* the updater's own line scan failed on a line the manifest reader accepted,
\* with a change list that asks for an appended entry
C10_Witness ==
    /\ pc = "crashed"
    /\ err = "update_file_entries: lines"
    /\ Records("A") # <<>>
    /\ entries # <<>>

====
